---- MODULE Spec2Model ----
(***************************************************************************)
(* MicroUrlService: the URL-shortening service of the microurl project.    *)
(*                                                                         *)
(* Two variants of the service are in the source tree:                     *)
(*   ver3  MakeMicroUrl, ClickUrl and Stats are written out; the           *)
(*         constructor taking a generator has an empty body;               *)
(*   ver7  MakeMicroUrl is written out, the constructor stores the         *)
(*         generator, ClickUrl and Stats return std::nullopt.              *)
(* The variable ver records which variant a service instance is.           *)
(*                                                                         *)
(* Strings are sequences of one-character strings.  The short-code codec   *)
(* (3rdparty/Shortener.h), the default generator (DbIdGenerator) and       *)
(* VisitUrls are not part of the source tree and are modelled from the     *)
(* specification.                                                          *)
(***************************************************************************)
EXTENDS Integers, Sequences, FiniteSets, TLC

VARIABLES
    ver,            \* variant of the service: 3 or 7
    m_idGenerator,  \* "Db", "Injected" or "Null" (a null unique_ptr)
    nextId,         \* the counter behind DbIdGenerator
    m_idToUrl,      \* the store: id -> [OriginalUrl, MicroUrl, Clicks]
    crashed,        \* the process died (null dereference, end() dereference)
    ret,            \* the outcome of the last call
    calls,          \* number of calls made so far
    issued,         \* history: one entry per MakeMicroUrl that returned
    resolved,       \* history: id -> number of ClickUrl calls that returned a URL
    thr,            \* concurrent callers of ClickUrl: thread -> [pc, tgt, tmp]
    m_freq,         \* UrlFrequencyVisitor: original URL -> number of visits
    seen,           \* history: the original URLs the visitor was called with
    out,            \* the outcome of the last call on the visitor
    expected,       \* UnpackTest: the vector handed to std::for_each
    actual,         \* UnpackTest: what the callable given to unpack_to collected
    pos             \* UnpackTest: 0 before for_each, then the next element

visitorVars == <<m_freq, seen, out>>

unpackVars == <<expected, actual, pos>>

vars == <<ver, m_idGenerator, nextId, m_idToUrl, crashed, ret, calls, issued,
          resolved, thr, visitorVars, unpackVars>>

---------------------------------------------------------------------------
(* Bounds *)

MaxId == 2
MaxCalls == 4
NThreads == 2
MaxVisits == 3
MaxLen == 3

---------------------------------------------------------------------------
(* Strings *)

Invalid == -1

Alphabet == <<"a", "b">>

Base == Len(Alphabet)

\* "https://micro.url/" : the fixed prefix of every micro URL
BaseUrl == <<"/", "/", "m", "/">>

EmptyString == <<>>

Urls == { <<"x">>, <<"y", "/", "z">> }

RECURSIVE Reverse(_)
Reverse(s) == IF s = <<>> THEN <<>> ELSE Append(Reverse(Tail(s)), Head(s))

\* digits of n, least significant first
RECURSIVE Digits(_)
Digits(n) == IF n = 0 THEN <<>>
             ELSE <<Alphabet[(n % Base) + 1]>> \o Digits(n \div Base)

\* Ext::Shortener::idToShortURL
idToShortURL(id) == Reverse(Digits(id))

CharValue(c) ==
    IF \E i \in 1..Len(Alphabet) : Alphabet[i] = c
    THEN (CHOOSE i \in 1..Len(Alphabet) : Alphabet[i] = c) - 1
    ELSE Invalid

RECURSIVE DecodeFrom(_, _)
DecodeFrom(acc, s) ==
    IF s = <<>> THEN acc
    ELSE IF CharValue(Head(s)) = Invalid THEN Invalid
    ELSE DecodeFrom(acc * Base + CharValue(Head(s)), Tail(s))

\* Ext::Shortener::shortURLtoID
shortURLtoID(code) == DecodeFrom(0, code)

\* std::string::find_last_of('/') : the 1-based position of the last '/',
\* 0 when there is none (npos + 1 wraps to 0 in the source)
FindLastOf(s) ==
    IF \E i \in 1..Len(s) : s[i] = "/"
    THEN CHOOSE i \in 1..Len(s) : s[i] = "/" /\ \A j \in (i+1)..Len(s) : s[j] # "/"
    ELSE 0

\* the substring taken from the last '/' itself (the + 1 left out)
SecretFromSlash(microUrl) ==
    IF FindLastOf(microUrl) = 0 THEN microUrl
    ELSE SubSeq(microUrl, FindLastOf(microUrl), Len(microUrl))

\* strMicro.substr(strMicro.find_last_of('/') + 1)
Secret(microUrl) == SubSeq(microUrl, FindLastOf(microUrl) + 1, Len(microUrl))

Ids == 0..MaxId

\* the micro URLs handed to ClickUrl and Stats
MicroInputs ==
    { BaseUrl \o idToShortURL(i) : i \in Ids }
      \cup { idToShortURL(1),                   \* a bare code, no '/'
             <<"q", "/">> \o idToShortURL(1),   \* another prefix
             BaseUrl \o <<"a", "b">>,           \* leading zero digit
             BaseUrl \o <<"!">> }               \* outside the alphabet

\* long UrlToId(string_view microUrl); ClickUrl and Stats of ver3 spell the
\* same two lines out
UrlToId(microUrl) == shortURLtoID(Secret(microUrl))

---------------------------------------------------------------------------
(* Records *)

UrlInfo(original, micro, clicks) ==
    [OriginalUrl |-> original, MicroUrl |-> micro, Clicks |-> clicks]

\* a value-initialised UrlInfo, as std::map::operator[] inserts it
DefaultUrlInfo == UrlInfo(EmptyString, EmptyString, 0)

\* m[id] = rec : insert or overwrite
Put(m, id, rec) ==
    [k \in (DOMAIN m) \cup {id} |-> IF k = id THEN rec ELSE m[k]]

EmptyMap == [k \in {} |-> DefaultUrlInfo]

NoRet == [op |-> "none", arg |-> EmptyString, status |-> "none",
          url |-> EmptyString, info |-> DefaultUrlInfo, id |-> Invalid,
          found |-> FALSE, visited |-> <<>>]

Threads == 1..NThreads

IdleThread == [pc |-> "idle", tgt |-> Invalid, tmp |-> 0]

\* std::map<std::string, ptrdiff_t, std::less<>> m_freq, empty
EmptyFreq == [k \in {} |-> 0]

NoOut == [op |-> "none", arg |-> EmptyString, status |-> "none",
          val |-> EmptyString, n |-> 0, pastEnd |-> FALSE]

---------------------------------------------------------------------------
(* Construction *)

\* ver3: MicroUrlService() builds a DbIdGenerator; MicroUrlService(generator)
\* has an empty body and leaves m_idGenerator null.
\* ver7: both constructors initialise m_idGenerator.
Constructed ==
    \/ ver = 3 /\ m_idGenerator \in {"Db", "Null"}
    \/ ver = 7 /\ m_idGenerator \in {"Db", "Injected"}

Init ==
    /\ ver \in {3, 7}
    /\ m_idGenerator \in {"Db", "Injected", "Null"}
    /\ Constructed
    /\ nextId = 0
    /\ m_idToUrl = EmptyMap
    /\ crashed = FALSE
    /\ ret = NoRet
    /\ calls = 0
    /\ issued = <<>>
    /\ resolved = [i \in Ids |-> 0]
    /\ thr = [t \in Threads |-> IdleThread]
    /\ m_freq = EmptyFreq
    /\ seen = <<>>
    /\ out = NoOut
    /\ expected = <<>>
    /\ actual = <<>>
    /\ pos = 0

---------------------------------------------------------------------------
(* The identifier generator *)

\* the ids m_idGenerator->Generate(url) can return: DbIdGenerator hands out
\* its counter; an injected IIdGenerator is the caller's and returns any id,
\* a repeated one or a negative one (written Invalid) included
GeneratedIds ==
    IF m_idGenerator = "Db" THEN {nextId} ELSE Ids \cup {Invalid}

AllIdle == \A t \in Threads : thr[t].pc = "idle"

CanCall == ~crashed /\ calls < MaxCalls

---------------------------------------------------------------------------
(* MakeMicroUrl *)

\* m_idToUrl[id] = { url, microUrl, 0 }
Inserted(m, id, url, microUrl) == Put(m, id, UrlInfo(url, microUrl, 0))

\* MakeMicroUrl with the record stored before the code is computed
MadeStoreEarly(m, id, url) ==
    Put(m, id, UrlInfo(url, IF id < 0 THEN EmptyString
                            ELSE BaseUrl \o idToShortURL(id), 0))

\* the store once Generate has returned id: idToShortURL(id) is evaluated
\* first and rejects a negative id, and only then is the record stored
MadeStore(m, id, url) ==
    IF id < 0 THEN m
    ELSE Inserted(m, id, url, BaseUrl \o idToShortURL(id))

MakeMicroUrl(url) ==
    /\ CanCall
    /\ AllIdle
    /\ nextId <= MaxId
    /\ calls' = calls + 1
    /\ IF m_idGenerator = "Null"
       THEN \* m_idGenerator->Generate on a null unique_ptr
            /\ crashed' = TRUE
            /\ ret' = [NoRet EXCEPT !.op = "MakeMicroUrl", !.arg = url,
                                    !.status = "crash"]
            /\ UNCHANGED <<nextId, m_idToUrl, issued>>
       ELSE \/ \* Generate throws: nothing after line 41 runs
               /\ ret' = [NoRet EXCEPT !.op = "MakeMicroUrl", !.arg = url,
                                       !.status = "GeneratorUnavailableError"]
               /\ UNCHANGED <<nextId, m_idToUrl, issued, crashed>>
            \/ \E id \in GeneratedIds :
                 /\ nextId' = IF m_idGenerator = "Db" THEN nextId + 1 ELSE nextId
                 /\ m_idToUrl' = MadeStore(m_idToUrl, id, url)
                 /\ crashed' = FALSE
                 /\ IF id < 0
                    THEN \* idToShortURL throws
                         /\ ret' = [NoRet EXCEPT !.op = "MakeMicroUrl",
                                       !.arg = url, !.status = "InvalidIdError"]
                         /\ UNCHANGED issued
                    ELSE LET microUrl == BaseUrl \o idToShortURL(id)
                         IN /\ issued' = Append(issued,
                                   [url |-> url, micro |-> microUrl, id |-> id])
                            /\ ret' = [NoRet EXCEPT !.op = "MakeMicroUrl",
                                   !.arg = url, !.status = "ok",
                                   !.url = microUrl, !.id = id,
                                   !.found = id \in DOMAIN m_idToUrl]
    /\ UNCHANGED <<visitorVars, unpackVars, ver, m_idGenerator, resolved, thr>>

---------------------------------------------------------------------------
(* ClickUrl *)

\* auto& url = m_idToUrl[id]  (operator[] inserts a value-initialised
\* UrlInfo when id is absent)
Looked(m, id) == IF id \in DOMAIN m THEN m ELSE Put(m, id, DefaultUrlInfo)

\* url.Clicks = clicks
WithClicks(m, id, clicks) == [m EXCEPT ![id].Clicks = clicks]

\* auto& url = m_idToUrl[id]; url.Clicks++;
Clicked(m, id) == WithClicks(Looked(m, id), id, Looked(m, id)[id].Clicks + 1)

\* ver3: std::string ClickUrl(const char* microUrl)
ClickUrl3(microUrl) ==
    LET id == UrlToId(microUrl)
    IN /\ CanCall
       /\ AllIdle
       /\ ver = 3
       /\ calls' = calls + 1
       /\ IF id = Invalid
          THEN \* the decoder rejects the code; nothing else runs
               /\ ret' = [NoRet EXCEPT !.op = "ClickUrl", !.arg = microUrl,
                                       !.status = "InvalidCodeError"]
               /\ UNCHANGED <<m_idToUrl, resolved>>
          ELSE /\ m_idToUrl' = Clicked(m_idToUrl, id)
               /\ resolved' = [resolved EXCEPT ![id] = @ + 1]
               /\ ret' = [NoRet EXCEPT !.op = "ClickUrl", !.arg = microUrl,
                                       !.status = "ok", !.id = id,
                                       !.url = Looked(m_idToUrl, id)[id].OriginalUrl,
                                       !.found = id \in DOMAIN m_idToUrl]
       /\ UNCHANGED <<visitorVars, unpackVars, ver, m_idGenerator, nextId, crashed, issued, thr>>

\* ver7: std::optional<std::string> ClickUrl(std::string_view) { return nullopt; }
ClickUrl7(microUrl) ==
    /\ CanCall
    /\ AllIdle
    /\ ver = 7
    /\ calls' = calls + 1
    /\ ret' = [NoRet EXCEPT !.op = "ClickUrl", !.arg = microUrl,
                            !.status = "nullopt", !.id = UrlToId(microUrl),
                            !.found = UrlToId(microUrl) \in DOMAIN m_idToUrl]
    /\ UNCHANGED <<visitorVars, unpackVars, ver, m_idGenerator, nextId, m_idToUrl, crashed, issued,
                   resolved, thr>>

---------------------------------------------------------------------------
(* Stats *)

\* what reading end()->second of the map can yield
Garbage == { UrlInfo(o, EmptyString, c) : o \in Urls \cup {EmptyString}, c \in 0..1 }

\* Stats written with operator[] in place of find
StatsStoreInserting(m, id) == Looked(m, id)

\* the store after Stats: the method is const and only calls find
StatsStore(m, id) == m

\* ver3: UrlInfo Stats(const std::string& microUrl) const
Stats3(microUrl) ==
    LET id == UrlToId(microUrl)
    IN /\ CanCall
       /\ AllIdle
       /\ ver = 3
       /\ calls' = calls + 1
       /\ m_idToUrl' = StatsStore(m_idToUrl, id)
       /\ IF id = Invalid
          THEN /\ ret' = [NoRet EXCEPT !.op = "Stats", !.arg = microUrl,
                                       !.status = "InvalidCodeError"]
               /\ crashed' = FALSE
          ELSE IF id \in DOMAIN m_idToUrl
          THEN /\ ret' = [NoRet EXCEPT !.op = "Stats", !.arg = microUrl,
                                       !.status = "ok", !.id = id,
                                       !.info = m_idToUrl[id], !.found = TRUE]
               /\ crashed' = FALSE
          ELSE \* find returned end(); ->second reads past the map
               \/ /\ crashed' = TRUE
                  /\ ret' = [NoRet EXCEPT !.op = "Stats", !.arg = microUrl,
                                          !.status = "crash", !.id = id]
               \/ /\ crashed' = FALSE
                  /\ \E g \in Garbage :
                       ret' = [NoRet EXCEPT !.op = "Stats", !.arg = microUrl,
                                            !.status = "ok", !.id = id,
                                            !.info = g]
       /\ UNCHANGED <<visitorVars, unpackVars, ver, m_idGenerator, nextId, issued, resolved, thr>>

\* ver7: std::optional<UrlInfo> Stats(std::string_view) const { return nullopt; }
Stats7(microUrl) ==
    /\ CanCall
    /\ AllIdle
    /\ ver = 7
    /\ calls' = calls + 1
    /\ ret' = [NoRet EXCEPT !.op = "Stats", !.arg = microUrl,
                            !.status = "nullopt", !.id = UrlToId(microUrl),
                            !.found = UrlToId(microUrl) \in DOMAIN m_idToUrl]
    /\ UNCHANGED <<visitorVars, unpackVars, ver, m_idGenerator, nextId, m_idToUrl, crashed, issued,
                   resolved, thr>>

---------------------------------------------------------------------------
(* VisitUrls *)

Min(S) == CHOOSE x \in S : \A y \in S : x <= y

\* the records of m, by ascending key
RECURSIVE InOrder(_, _)
InOrder(m, keys) ==
    IF keys = {} THEN <<>>
    ELSE <<m[Min(keys)]>> \o InOrder(m, keys \ {Min(keys)})

\* the visitor is called once per stored record
VisitUrls ==
    /\ CanCall
    /\ AllIdle
    /\ calls' = calls + 1
    /\ ret' = [NoRet EXCEPT !.op = "VisitUrls", !.status = "ok",
                            !.visited = InOrder(m_idToUrl, DOMAIN m_idToUrl)]
    /\ UNCHANGED <<visitorVars, unpackVars, ver, m_idGenerator, nextId, m_idToUrl, crashed, issued,
                   resolved, thr>>

---------------------------------------------------------------------------
(* One caller at a time *)

Next ==
    \/ \E u \in Urls : MakeMicroUrl(u)
    \/ \E m \in MicroInputs : ClickUrl3(m)
    \/ \E m \in MicroInputs : ClickUrl7(m)
    \/ \E m \in MicroInputs : Stats3(m)
    \/ \E m \in MicroInputs : Stats7(m)
    \/ VisitUrls

Spec == Init /\ [][Next]_vars

---------------------------------------------------------------------------
(* Concurrent callers of ClickUrl: each thread makes one call, in steps *)

\* string strMicro(microUrl); secret = ...; auto& url = m_idToUrl[id];
ClickBegin(t, microUrl) ==
    LET id == UrlToId(microUrl)
    IN /\ ~crashed
       /\ ver = 3
       /\ thr[t].pc = "idle"
       /\ id # Invalid
       /\ m_idToUrl' = Looked(m_idToUrl, id)
       /\ thr' = [thr EXCEPT ![t] = [pc |-> "load", tgt |-> id, tmp |-> 0]]
       /\ UNCHANGED <<visitorVars, unpackVars, ver, m_idGenerator, nextId, crashed, ret, calls, issued,
                      resolved>>

\* url.Clicks++ : the read of Clicks
ClickLoad(t) ==
    /\ thr[t].pc = "load"
    /\ thr' = [thr EXCEPT ![t].pc = "store",
                          ![t].tmp = m_idToUrl[thr[t].tgt].Clicks]
    /\ UNCHANGED <<visitorVars, unpackVars, ver, m_idGenerator, nextId, m_idToUrl, crashed, ret, calls,
                   issued, resolved>>

\* url.Clicks++ : the write of Clicks; return url.OriginalUrl
ClickStore(t) ==
    /\ thr[t].pc = "store"
    /\ m_idToUrl' = WithClicks(m_idToUrl, thr[t].tgt, thr[t].tmp + 1)
    /\ resolved' = [resolved EXCEPT ![thr[t].tgt] = @ + 1]
    /\ thr' = [thr EXCEPT ![t].pc = "done"]
    /\ UNCHANGED <<visitorVars, unpackVars, ver, m_idGenerator, nextId, crashed, ret, calls, issued>>

\* ver7: return nullopt
ClickNullopt(t, microUrl) ==
    /\ ~crashed
    /\ ver = 7
    /\ thr[t].pc = "idle"
    /\ thr' = [thr EXCEPT ![t] = [pc |-> "done", tgt |-> UrlToId(microUrl), tmp |-> 0]]
    /\ UNCHANGED <<visitorVars, unpackVars, ver, m_idGenerator, nextId, m_idToUrl, crashed, ret, calls,
                   issued, resolved>>

NextConc ==
    \/ \E u \in Urls : MakeMicroUrl(u)
    \/ \E t \in Threads, m \in MicroInputs : ClickBegin(t, m)
    \/ \E t \in Threads : ClickLoad(t)
    \/ \E t \in Threads : ClickStore(t)
    \/ \E t \in Threads, m \in MicroInputs : ClickNullopt(t, m)

SpecConc == Init /\ [][NextConc]_vars

---------------------------------------------------------------------------
(* UrlFrequencyVisitor, the visitor of StatefulVisitTest *)

serviceVars == <<ver, m_idGenerator, nextId, m_idToUrl, crashed, ret, calls,
                 issued, resolved, thr>>

\* the characters of the original URLs handed to the visitor, in char order
UrlChars == <<"a", "b">>

CharRank(c) == CHOOSE i \in DOMAIN UrlChars : UrlChars[i] = c

\* the original URLs of the records handed to the visitor
VisitedUrls == { <<"a">>, <<"a", "b">>, <<"a", "b", "b">>, <<"b">>, <<"b", "a">> }

\* the arguments of StartingWith
Prefixes == { <<>>, <<"a">>, <<"a", "b">>, <<"b">>, <<"b", "b">> }

\* std::less<> on strings: lexicographic order
RECURSIVE Less(_, _)
Less(s, t) ==
    IF t = <<>> THEN FALSE
    ELSE IF s = <<>> THEN TRUE
    ELSE IF Head(s) # Head(t) THEN CharRank(Head(s)) < CharRank(Head(t))
    ELSE Less(Tail(s), Tail(t))

\* the keys of the map in iteration order, begin() first
RECURSIVE SortedKeys(_)
SortedKeys(keys) ==
    IF keys = {} THEN <<>>
    ELSE LET k == CHOOSE x \in keys : \A y \in keys \ {x} : Less(x, y)
         IN <<k>> \o SortedKeys(keys \ {k})

\* the test goes on as long as no call on the visitor has hung or faulted
VisitorAlive == out.status \notin {"hang", "crash"}

\* m_freq[info.OriginalUrl]++
Counted(freq, url) ==
    IF url \in DOMAIN freq THEN [freq EXCEPT ![url] = @ + 1]
    ELSE [k \in (DOMAIN freq) \cup {url} |-> IF k = url THEN 1 ELSE freq[k]]

\* void operator()(const UrlInfo& info)
VisitorCall(info) ==
    /\ VisitorAlive
    /\ Len(seen) < MaxVisits
    /\ m_freq' = Counted(m_freq, info.OriginalUrl)
    /\ seen' = Append(seen, info.OriginalUrl)
    /\ out' = [NoOut EXCEPT !.op = "operator()", !.arg = info.OriginalUrl,
                            !.status = "ok"]
    /\ UNCHANGED <<serviceVars, unpackVars>>

\* the scan written against the local freq, which stays 0
RECURSIVE MaxElemAgainstFreq(_, _, _, _)
MaxElemAgainstFreq(keys, freq, maxElemIt, curr) ==
    IF curr + 1 = Len(keys) + 1 THEN maxElemIt
    ELSE IF freq[keys[curr + 1]] > 0
         THEN MaxElemAgainstFreq(keys, freq, curr + 1, curr + 1)
         ELSE MaxElemAgainstFreq(keys, freq, maxElemIt, curr + 1)

\* while (++curr != end(m_freq))
\*     if (curr->second > maxElemIt->second) maxElemIt = curr;
\* on a map that is not empty; iterators are positions in keys, end() is
\* Len(keys) + 1
RECURSIVE MaxElem(_, _, _, _)
MaxElem(keys, freq, maxElemIt, curr) ==
    IF curr + 1 = Len(keys) + 1 THEN maxElemIt
    ELSE IF freq[keys[curr + 1]] > freq[keys[maxElemIt]]
         THEN MaxElem(keys, freq, curr + 1, curr + 1)
         ELSE MaxElem(keys, freq, maxElemIt, curr + 1)

\* std::string MostPopular() const
MostPopular ==
    LET keys == SortedKeys(DOMAIN m_freq)
    IN /\ VisitorAlive
       /\ IF keys = <<>>
          THEN \* curr == end(m_freq) and ++curr increments it: the loop is
               \* left at once and maxElemIt == end gives std::string{}, or
               \* the increment never returns, or the walk faults
               \E st \in {"ok", "hang", "crash"} :
                 out' = [NoOut EXCEPT !.op = "MostPopular", !.status = st,
                                      !.pastEnd = TRUE]
          ELSE out' = [NoOut EXCEPT !.op = "MostPopular", !.status = "ok",
                                    !.val = keys[MaxElem(keys, m_freq, 1, 1)]]
       /\ UNCHANGED <<serviceVars, unpackVars, m_freq, seen>>

Min2(a, b) == IF a < b THEN a ELSE b

\* first->first.compare(0, sv.size(), sv) != 0
CompareDiffers(key, sv) == SubSeq(key, 1, Min2(Len(sv), Len(key))) # sv

\* m_freq.lower_bound(sv): the first position whose key is not less than sv
LowerBound(keys, sv) ==
    IF \E i \in DOMAIN keys : ~Less(keys[i], sv)
    THEN CHOOSE i \in DOMAIN keys :
           ~Less(keys[i], sv) /\ \A j \in 1..(i - 1) : Less(keys[j], sv)
    ELSE Len(keys) + 1

\* the position at which the loop of StartingWith stops: the first position
\* from `first` on whose key differs from sv, Len(keys) + 1 (end) when there
\* is none and the loop goes on to read *end
RECURSIVE StopAt(_, _, _)
StopAt(keys, sv, first) ==
    IF first = Len(keys) + 1 THEN first
    ELSE IF CompareDiffers(keys[first], sv) THEN first
    ELSE StopAt(keys, sv, first + 1)

\* ptrdiff_t StartingWith(std::string_view sv) const
StartingWith(sv) ==
    LET keys == SortedKeys(DOMAIN m_freq)
        beginPrefix == LowerBound(keys, sv)
        stop == StopAt(keys, sv, beginPrefix)
    IN /\ VisitorAlive
       /\ IF beginPrefix = Len(keys) + 1
          THEN \* the loop is not entered: distance(end, end)
               out' = [NoOut EXCEPT !.op = "StartingWith", !.arg = sv,
                                    !.status = "ok", !.n = 0]
          ELSE IF stop <= Len(keys)
          THEN \* endPrefix = first; break
               out' = [NoOut EXCEPT !.op = "StartingWith", !.arg = sv,
                                    !.status = "ok", !.n = stop - beginPrefix]
          ELSE \* first == end and the condition tests beginPrefix: *end is
               \* read; the read faults, or what is read differs from sv and
               \* endPrefix = end, or it does not and the loop runs on
               \E st \in {"ok", "hang", "crash"} :
                 out' = [NoOut EXCEPT !.op = "StartingWith", !.arg = sv,
                           !.status = st, !.pastEnd = TRUE,
                           !.n = IF st = "ok" THEN stop - beginPrefix ELSE 0]
       /\ UNCHANGED <<serviceVars, unpackVars, m_freq, seen>>

NextVisitor ==
    \/ \E u \in VisitedUrls : VisitorCall(UrlInfo(u, EmptyString, 0))
    \/ MostPopular
    \/ \E sv \in Prefixes : StartingWith(sv)

SpecVisitor == Init /\ [][NextVisitor]_vars

---------------------------------------------------------------------------
(* unpack_to, the callable adaptor of UnpackTest *)

\* the elements of the vector
Tuples == { <<"google", 10, 20>>, <<"italiancpp", 21, 80>>,
            <<"coding-gym", 15, 100>>, <<"google", 21, 80>> }

\* std::vector<std::tuple<std::string, int, int>> expected = { ... }
ExpectedPushBack(t) ==
    /\ pos = 0
    /\ Len(expected) < MaxLen
    /\ expected' = Append(expected, t)
    /\ UNCHANGED <<serviceVars, visitorVars, actual, pos>>

\* std::for_each(begin(expected), end(expected), unpack_to(f)): unpack_to's
\* constructor takes f and keeps nothing
ForEachBegin ==
    /\ pos = 0
    /\ pos' = 1
    /\ UNCHANGED <<serviceVars, visitorVars, expected, actual>>

\* what f, which does actual.emplace_back(name, urls, clicks), has collected
\* once unpack_to::operator()(arg) has returned: operator() returns 1 and
\* calls nothing
Unpacked(collected, arg) == collected

\* one element of the for_each loop
ForEachStep ==
    /\ pos >= 1
    /\ pos <= Len(expected)
    /\ actual' = Unpacked(actual, expected[pos])
    /\ pos' = pos + 1
    /\ UNCHANGED <<serviceVars, visitorVars, expected>>

NextUnpack ==
    \/ \E t \in Tuples : ExpectedPushBack(t)
    \/ ForEachBegin
    \/ ForEachStep

SpecUnpack == Init /\ [][NextUnpack]_vars

---------------------------------------------------------------------------
(* Properties *)

\* the step is a call (not a thread step, not stuttering)
IsCall == calls' = calls + 1

\* the failure value of ClickUrl and Stats: an empty std::optional
NotFound == "nullopt"

Count(seq, x) == Cardinality({ i \in DOMAIN seq : seq[i] = x })

IssuedIds == { issued[i].id : i \in DOMAIN issued }

\* C1: Shorten-then-resolve.  When MakeMicroUrl(u) has returned s and the
\* next call is ClickUrl(s), that call returns u.
ShortenThenResolve ==
    [][ ( /\ IsCall
          /\ ret.op = "MakeMicroUrl" /\ ret.status = "ok"
          /\ ret'.op = "ClickUrl" /\ ret'.arg = ret.url )
        => ( ret'.status = "ok" /\ ret'.url = ret.arg ) ]_vars

\* The same round trip for the ver3 service alone, whose ClickUrl is
\* written out: it holds there.
ShortenThenResolveVer3 ==
    [][ ( /\ ver = 3
          /\ IsCall
          /\ ret.op = "MakeMicroUrl" /\ ret.status = "ok"
          /\ ret'.op = "ClickUrl" /\ ret'.arg = ret.url )
        => ( ret'.status = "ok" /\ ret'.url = ret.arg ) ]_vars

\* C2: Click accounting.  For every micro URL MakeMicroUrl has returned, the
\* Clicks of its record equal the number of ClickUrl calls on it that
\* returned a URL; a ClickUrl that returns a URL raises the Clicks of its
\* record by one; the Clicks of a stored record never decrease.
ClickAccounting ==
    [][ /\ \A i \in DOMAIN issued' :
             /\ issued'[i].id \in DOMAIN m_idToUrl'
             /\ m_idToUrl'[issued'[i].id].Clicks = resolved'[issued'[i].id]
        /\ \A k \in DOMAIN m_idToUrl :
             /\ k \in DOMAIN m_idToUrl'
             /\ m_idToUrl'[k].Clicks >= m_idToUrl[k].Clicks
        /\ ( IsCall /\ ret'.op = "ClickUrl" /\ ret'.status = "ok" /\ ret'.found )
             => m_idToUrl'[ret'.id].Clicks = m_idToUrl[ret'.id].Clicks + 1
      ]_vars

\* C3: Stats is read-only.  A Stats call, whatever its outcome, leaves the
\* store as it was: same ids, same records, same Clicks.
StatsReadOnly ==
    [][ ( IsCall /\ ret'.op = "Stats" ) => m_idToUrl' = m_idToUrl ]_vars

\* a Stats call has returned the record of a micro URL that was clicked
\* before, and the record is still in the store with the same Clicks
StatsReadOnlyWitness ==
    /\ ret.op = "Stats" /\ ret.status = "ok" /\ ret.found
    /\ ret.info.Clicks > 0
    /\ m_idToUrl[ret.id] = ret.info

\* C4: Stats right after Shorten.  When MakeMicroUrl(u) has returned s and
\* the next call is Stats(s), it returns the record {u, s, 0}.
StatsAfterShorten ==
    [][ ( /\ IsCall
          /\ ret.op = "MakeMicroUrl" /\ ret.status = "ok"
          /\ ret'.op = "Stats" /\ ret'.arg = ret.url )
        => ( ret'.status = "ok" /\ ret'.info = UrlInfo(ret.arg, ret.url, 0) ) ]_vars

\* The same for the ver3 service alone, whose Stats is written out: it
\* holds there.
StatsAfterShortenVer3 ==
    [][ ( /\ ver = 3
          /\ IsCall
          /\ ret.op = "MakeMicroUrl" /\ ret.status = "ok"
          /\ ret'.op = "Stats" /\ ret'.arg = ret.url )
        => ( ret'.status = "ok" /\ ret'.info = UrlInfo(ret.arg, ret.url, 0) ) ]_vars

\* C5: Uniqueness.  Two MakeMicroUrl calls with the same URL have returned
\* different micro URLs, kept under different ids; and a ClickUrl call
\* changes no record but the one its micro URL names.
Uniqueness ==
    [][ /\ \A i, j \in DOMAIN issued' :
             ( i # j /\ issued'[i].url = issued'[j].url )
               => ( /\ issued'[i].micro # issued'[j].micro
                    /\ issued'[i].id # issued'[j].id )
        /\ ( IsCall /\ ret'.op = "ClickUrl" )
             => \A k \in DOMAIN m_idToUrl :
                  k # ret'.id => ( k \in DOMAIN m_idToUrl'
                                   /\ m_idToUrl'[k] = m_idToUrl[k] )
      ]_vars

\* Under DbIdGenerator, which never repeats an id, two shortenings always
\* differ in id and in micro URL.
UniquenessDb ==
    m_idGenerator = "Db" =>
      \A i, j \in DOMAIN issued :
        i # j => ( issued[i].micro # issued[j].micro /\ issued[i].id # issued[j].id )

\* C6: Visitation completeness.  VisitUrls hands the visitor as many records
\* as MakeMicroUrl calls have returned, and every original URL as often as
\* it was shortened.
VisitComplete ==
    ret.op = "VisitUrls" =>
      /\ Len(ret.visited) = Len(issued)
      /\ \A u \in Urls \cup {EmptyString} :
           Count([i \in DOMAIN ret.visited |-> ret.visited[i].OriginalUrl], u)
             = Count([i \in DOMAIN issued |-> issued[i].url], u)

\* C7: Concurrency.  When every concurrent ClickUrl call has returned, the
\* Clicks of each issued record equal the number of calls that returned its
\* URL.
NoLostClicks ==
    ( \A t \in Threads : thr[t].pc = "done" )
      => \A id \in IssuedIds : m_idToUrl[id].Clicks = resolved[id]

\* C8: ClickUrl of a code that decodes to an id with no record fails with
\* the not-found value and returns no URL.
ResolveUnissuedFails ==
    ( ret.op = "ClickUrl" /\ ret.id # Invalid /\ ~ret.found )
      => ret.status = NotFound

\* C9: No mutation on failure.  A ClickUrl or Stats call whose code does not
\* decode, or decodes to an id with no record, leaves the store as it was.
NoMutationOnFailure ==
    [][ ( /\ IsCall
          /\ ret'.op \in {"ClickUrl", "Stats"}
          /\ ( ret'.id = Invalid \/ ~ret'.found ) )
        => m_idToUrl' = m_idToUrl ]_vars

\* C10: Stats of a code that decodes to an id with no record fails with the
\* not-found value and returns no record.
StatsUnissuedFails ==
    ( ret.op = "Stats" /\ ret.id # Invalid /\ ~ret.found )
      => ret.status = NotFound

\* the part of a micro URL after its last '/', the whole of it when it has
\* none: its longest suffix without a '/'
RECURSIVE TrailingCode(_)
TrailingCode(s) ==
    IF s = <<>> \/ s[Len(s)] = "/" THEN <<>>
    ELSE Append(TrailingCode(SubSeq(s, 1, Len(s) - 1)), s[Len(s)])

HasBadChar(code) ==
    \E i \in DOMAIN code : \A k \in DOMAIN Alphabet : Alphabet[k] # code[i]

\* the service was built with MicroUrlService(generator)
GeneratorSupplied == m_idGenerator \in {"Injected", "Null"}

\* C11: ClickUrl of a micro URL whose code has a character outside the
\* alphabet fails with InvalidCodeError, which is not the not-found value.
InvalidCodeFails ==
    ( ret.op = "ClickUrl" /\ HasBadChar(TrailingCode(ret.arg)) )
      => ( ret.status = "InvalidCodeError" /\ ret.status # NotFound )

\* C12: Shorten is all-or-nothing.  A MakeMicroUrl call that does not return
\* a micro URL (the generator failed, or the encoder rejected the id) leaves
\* the store as it was and reports the failure.
ShortenAllOrNothing ==
    [][ ( IsCall /\ ret'.op = "MakeMicroUrl" /\ ret'.status # "ok" )
        => ( /\ m_idToUrl' = m_idToUrl
             /\ ret'.status \in {"GeneratorUnavailableError", "InvalidIdError",
                                 "crash"} ) ]_vars

\* the encoder has rejected the id of a MakeMicroUrl call on a service that
\* already holds records
ShortenAllOrNothingWitness ==
    /\ ret.op = "MakeMicroUrl" /\ ret.status = "InvalidIdError"
    /\ m_idToUrl # EmptyMap

\* C13: Duplicate-id guard.  A MakeMicroUrl call for which the generator
\* returns an id the store already holds fails with DuplicateIdError and
\* leaves the store as it was.
DuplicateIdGuard ==
    [][ ( IsCall /\ ret'.op = "MakeMicroUrl" /\ ret'.id \in DOMAIN m_idToUrl )
        => ( ret'.status = "DuplicateIdError" /\ m_idToUrl' = m_idToUrl ) ]_vars

\* C14: Injected generator.  A service built with a generator holds it, and
\* MakeMicroUrl on that service ends as a call of that generator ends.
InjectedGeneratorUsed ==
    ( GeneratorSupplied /\ ret.op = "MakeMicroUrl" )
      => ( /\ m_idGenerator = "Injected"
           /\ ret.status \in {"ok", "GeneratorUnavailableError", "InvalidIdError"} )

\* C15: Record permanence.  The record of an id MakeMicroUrl has stored stays
\* in the store with the same OriginalUrl and the same MicroUrl.
RecordPermanence ==
    [][ \A id \in IssuedIds :
          /\ id \in DOMAIN m_idToUrl'
          /\ m_idToUrl'[id].OriginalUrl = m_idToUrl[id].OriginalUrl
          /\ m_idToUrl'[id].MicroUrl = m_idToUrl[id].MicroUrl ]_vars

\* C19: Code extraction.  A ClickUrl or Stats call that finds a record finds
\* the one whose id the part after the last '/' decodes to (the whole input
\* when it has no '/'), whatever stands before it; and it rejects the code
\* only when that part has a character outside the alphabet.
CodeExtraction ==
    /\ ( ret.op \in {"ClickUrl", "Stats"} /\ ret.status = "ok" /\ ret.found )
         => LET id == shortURLtoID(TrailingCode(ret.arg))
            IN /\ ret.id = id
               /\ id \in DOMAIN m_idToUrl
               /\ ret.op = "Stats" => ret.info = m_idToUrl[id]
               /\ ret.op = "ClickUrl" =>
                    ( ret.url = m_idToUrl[id].OriginalUrl
                      /\ m_idToUrl[id].Clicks >= 1 )
    /\ ( ret.op \in {"ClickUrl", "Stats"} /\ ret.status = "InvalidCodeError" )
         => HasBadChar(TrailingCode(ret.arg))

\* ClickUrl has returned the URL of a record when given its bare code, with
\* no '/' before it
CodeExtractionWitness ==
    /\ ret.op = "ClickUrl" /\ ret.status = "ok" /\ ret.found
    /\ ret.arg # <<>> /\ FindLastOf(ret.arg) = 0
    /\ ret.url \in Urls

StartsWith(url, prefix) ==
    /\ Len(prefix) <= Len(url)
    /\ \A i \in DOMAIN prefix : url[i] = prefix[i]

\* C16: Most-frequent aggregation.  MostPopular on a visitor that was handed
\* at least one record returns an original URL it was handed, and no
\* original URL was handed to it more often.
MostPopularMaximal ==
    ( out.op = "MostPopular" /\ seen # <<>> )
      => /\ out.status = "ok" /\ ~out.pastEnd
         /\ Count(seen, out.val) >= 1
         /\ \A u \in VisitedUrls : Count(seen, u) <= Count(seen, out.val)

\* MostPopular has returned a URL seen twice that is not the first key of
\* the map, ahead of a smaller key seen less often
MostPopularMaximalWitness ==
    /\ out.op = "MostPopular" /\ out.status = "ok"
    /\ Count(seen, out.val) >= 2
    /\ \E u \in VisitedUrls :
         Less(u, out.val) /\ Count(seen, u) >= 1
           /\ Count(seen, u) < Count(seen, out.val)

\* C17: Prefix counting.  StartingWith(p) returns the number of records the
\* visitor was handed whose original URL starts with p.
PrefixCount ==
    out.op = "StartingWith"
      => /\ out.status = "ok"
         /\ out.n = Cardinality({ i \in DOMAIN seen : StartsWith(seen[i], out.arg) })

\* What StartingWith does return when its loop stops before end(): the
\* number of different original URLs that start with p.
PrefixCountDistinct ==
    ( out.op = "StartingWith" /\ ~out.pastEnd )
      => /\ out.status = "ok"
         /\ out.n = Cardinality({ u \in DOMAIN m_freq : StartsWith(u, out.arg) })

\* C18: unpack_to.  When for_each has gone through the vector, the callable
\* given to unpack_to has collected the elements of the vector, in order.
UnpackCollects ==
    pos = Len(expected) + 1 => actual = expected

\* C20: The scans stay within the map.  MostPopular and StartingWith return
\* without advancing or reading an iterator at end(); MostPopular on a
\* visitor that has seen nothing returns the empty string, and StartingWith
\* returns the number of keys that start with its argument.
ScansInBounds ==
    out.op \in {"MostPopular", "StartingWith"}
      => /\ out.status = "ok" /\ ~out.pastEnd
         /\ ( out.op = "MostPopular" /\ seen = <<>> ) => out.val = EmptyString
         /\ out.op = "StartingWith" =>
              out.n = Cardinality({ u \in DOMAIN m_freq : StartsWith(u, out.arg) })

====
